---- MODULE Spec2Model ----
(***************************************************************************)
(* Model of the materials REST API: the materials controller               *)
(* (src/controllers/materialsController.js), the materials router and the  *)
(* User model (src/unnamed/part_000).                                      *)
(*                                                                         *)
(* Three specifications are defined over the same variables:               *)
(*   Spec            one request at a time, every input shape;             *)
(*   SpecConcurrent  two requests in flight, their database calls          *)
(*                   interleaved;                                          *)
(*   SpecUser        create and update of rows of the users table.         *)
(***************************************************************************)
EXTENDS Integers, Sequences, FiniteSets, TLC

VARIABLES
    materials,   \* rows of the materials table
    nextId,      \* next auto-increment id of the materials table
    storage,     \* files present under FILE_UPLOAD_PATH
    req,         \* the requests in flight, one per slot
    maxFileUpload, \* process.env.MAX_FILE_UPLOAD
    users,       \* rows of the users table
    nextUserId,  \* next auto-increment id of the users table
    lastUserOp,  \* the last User create/update and how it ended (SpecUser)
    collation    \* whether the unique index on email compares case-sensitively

vars == <<materials, nextId, storage, req, maxFileUpload, users, nextUserId, lastUserOp, collation>>

materialVars == <<materials, nextId, storage, req, maxFileUpload>>
userVars == <<users, nextUserId, lastUserOp, collation>>

----------------------------------------------------------------------------
(* Bounds *)

MaxMaterials == 1
MaxUsers == 2

----------------------------------------------------------------------------
(* JavaScript values: a number and a string are never strictly equal. *)

JsNumber(n) == [type |-> "number", num |-> n, str |-> ""]
JsString(s) == [type |-> "string", num |-> 0, str |-> s]
JsNull == [type |-> "null", num |-> 0, str |-> ""]
JsUndefined == [type |-> "undefined", num |-> 0, str |-> ""]

\* a !== b
StrictNotEquals(a, b) == a # b

\* !v for the values used here: null, undefined, "" and 0 are falsy
Falsy(v) ==
    \/ v.type \in {"null", "undefined"}
    \/ v.type = "string" /\ v.str = ""
    \/ v.type = "number" /\ v.num = 0

DigitChar(d) == SubSeq("0123456789", d + 1, d + 1)

RECURSIVE NumberToString(_)
\* Number.prototype.toString() of a non-negative integer
NumberToString(n) ==
    IF n < 10 THEN DigitChar(n)
    ELSE NumberToString(n \div 10) \o DigitChar(n % 10)

DigitValue(c) == CHOOSE d \in 0..9 : DigitChar(d) = c

RECURSIVE StringToNumber(_)
\* the numeric value of a string of decimal digits (the coercion the database
\* applies to a primary key, and JavaScript to an operand of >)
StringToNumber(s) ==
    IF Len(s) = 0 THEN 0
    ELSE 10 * StringToNumber(SubSeq(s, 1, Len(s) - 1))
         + DigitValue(SubSeq(s, Len(s), Len(s)))

\* String.prototype.startsWith
StartsWith(s, prefix) ==
    /\ Len(s) >= Len(prefix)
    /\ SubSeq(s, 1, Len(prefix)) = prefix

\* String.prototype.substring(from) with from >= 0
Substring(s, from) == IF from >= Len(s) THEN "" ELSE SubSeq(s, from + 1, Len(s))

\* the positions of "." in s
DotPositions(s) == {i \in 1..Len(s) : SubSeq(s, i, i) = "."}

\* path.parse(name).ext of a name without directory separators: from the
\* last "." to the end, or "" when there is none or it is the first character
PathExt(name) ==
    IF DotPositions(name) = {} THEN ""
    ELSE LET i == CHOOSE p \in DotPositions(name) :
                      \A q \in DotPositions(name) : q <= p
         IN  IF i = 1 THEN "" ELSE SubSeq(name, i, Len(name))

----------------------------------------------------------------------------
(* Rows, requests and the environment *)

\* the users table as the materials API finds it (Spec, SpecConcurrent):
\* one user of every role; the password column holds a bcrypt hash
BcryptHash(value) == [hashOf |-> value]

SeedUsers ==
    { [id |-> 1, email |-> "ad@x.io", password |-> BcryptHash("pppppp"), role |-> "admin"],
      [id |-> 2, email |-> "te@x.io", password |-> BcryptHash("pppppp"), role |-> "teacher"],
      [id |-> 3, email |-> "st@x.io", password |-> BcryptHash("pppppp"), role |-> "student"] }

NullUser == [id |-> 0, email |-> "", password |-> BcryptHash(""), role |-> ""]

NullMaterial ==
    [id |-> 0, userId |-> 0, title |-> JsNull, fileUrl |-> JsNull, fileType |-> JsNull]

\* req.body: a key that is absent reads as undefined
NoBody == [title |-> JsUndefined, fileUrl |-> JsUndefined, fileType |-> JsUndefined]

CreateBodies == { [NoBody EXCEPT !.title = JsString("T1")] }

UpdateBodies ==
    { [NoBody EXCEPT !.title = JsString("T2")],
      [NoBody EXCEPT !.fileUrl = JsNull, !.fileType = JsNull] }

\* req.files: field = "" stands for no multipart file at all (req.files is
\* null); otherwise one file was sent under the form field `field`
NoFiles == [field |-> "", name |-> "", mimetype |-> "", size |-> 0]

\* process.env
FILE_UPLOAD_PATH == "./uploads"
MaxFileUploadSettings == {JsUndefined, JsString("5000000")}

\* a bearer token: absent, one whose signature does not verify, or a signed
\* token carrying a user id
NoToken == [present |-> FALSE, verifies |-> FALSE, id |-> 0]

Slots == {"r1", "r2"}

IdleRequest ==
    [pc |-> "idle", via |-> "", method |-> "", path |-> "", op |-> "",
     token |-> NoToken, user |-> NullUser,
     id |-> "", body |-> NoBody, files |-> NoFiles, material |-> NullMaterial,
     fileName |-> "", outcomes |-> <<>>]

\* Model.findByPk: the row with that primary key, or null
FindByPk(table, null, id) ==
    IF \E row \in table : row.id = id
    THEN CHOOSE row \in table : row.id = id
    ELSE null

\* instance.update(values): UPDATE ... SET the given keys WHERE id = instance.id
UpdateRow(table, id, values) ==
    { IF row.id = id
      THEN [row EXCEPT
               !.title = IF values.title.type = "undefined" THEN @ ELSE values.title,
               !.fileUrl = IF values.fileUrl.type = "undefined" THEN @ ELSE values.fileUrl,
               !.fileType = IF values.fileType.type = "undefined" THEN @ ELSE values.fileType]
      ELSE row : row \in table }

\* instance.destroy(): DELETE ... WHERE id = instance.id
DestroyRow(table, id) == {row \in table : row.id # id}

----------------------------------------------------------------------------
(* Responses *)

\* res.status(status).json({success: true, data})
Respond(rq, status, data) ==
    [rq EXCEPT !.pc = "done",
               !.outcomes = Append(@, [via |-> "res", status |-> status,
                                       text |-> "", arg |-> data])]

\* next(new ErrorResponse(`${text}${arg}`, status)): the error reaches the
\* centralized error formatter
NextError(rq, status, text, arg) ==
    [rq EXCEPT !.pc = "done",
               !.outcomes = Append(@, [via |-> "next", status |-> status,
                                       text |-> text, arg |-> arg])]

\* asyncHandler: a rejection of the handler's promise (a failed query, a
\* TypeError thrown in the handler) is passed to next
AsyncHandlerCatch(rq, text) == NextError(rq, 500, text, "")

ErrorKind(status) ==
    CASE status = 400 -> "BadRequest"
      [] status = 401 -> "Unauthorized"
      [] status = 403 -> "Forbidden"
      [] status = 404 -> "NotFound"
      [] status = 500 -> "Internal"
      [] OTHER -> "Success"

----------------------------------------------------------------------------
(* The materials controller *)

\* req.user.id: the primary key of the users row, an INTEGER column
ReqUserId(user) == JsNumber(user.id)

\* material.userId.toString() !== req.user.id && req.user.role !== 'admin'
NotOwnerNorAdmin(material, user) ==
    /\ StrictNotEquals(JsString(NumberToString(material.userId)), ReqUserId(user))
    /\ user.role # "admin"

\* process.env.MAX_FILE_UPLOAD || 10000000
DefaultMaxFileUpload == 10000000
MaxSize == IF Falsy(maxFileUpload) THEN JsNumber(DefaultMaxFileUpload) ELSE maxFileUpload

\* the number a value counts as under > and /
ToNumber(v) == IF v.type = "string" THEN StringToNumber(v.str) ELSE v.num

\* `material_${material.id}${path.parse(file.name).ext}`
CustomFileName(material, file) ==
    "material_" \o NumberToString(material.id) \o PathExt(file.name)

\* {fileUrl: `${FILE_UPLOAD_PATH}/${file.name}`, fileType: ext.substring(1)}
FileFields(fileName) ==
    [NoBody EXCEPT !.fileUrl = JsString(FILE_UPLOAD_PATH \o "/" \o fileName),
                   !.fileType = JsString(Substring(PathExt(fileName), 1))]

Set(r, rq) == req' = [req EXCEPT ![r] = rq]

\* GET /
getMaterials(r) ==
    /\ req[r].pc = "start" /\ req[r].op = "getMaterials"
    /\ Set(r, Respond(req[r], 200, "advancedResults"))
    /\ UNCHANGED <<materials, nextId, storage, maxFileUpload, userVars>>

\* GET /:id
getMaterial(r) ==
    /\ req[r].pc = "start" /\ req[r].op = "getMaterial"
    /\ \/ Set(r, AsyncHandlerCatch(req[r], "query failed"))
       \/ LET material == FindByPk(materials, NullMaterial, StringToNumber(req[r].id))
              rq == [req[r] EXCEPT !.material = material]
          IN  IF material = NullMaterial
              THEN Set(r, NextError(rq, 404, "Material not found with id of ", req[r].id))
              ELSE Set(r, Respond(rq, 200, "material"))
    /\ UNCHANGED <<materials, nextId, storage, maxFileUpload, userVars>>

\* POST /
createMaterial(r) ==
    /\ req[r].pc = "start" /\ req[r].op = "createMaterial"
    /\ \/ /\ Set(r, AsyncHandlerCatch(req[r],
                     IF req[r].user = NullUser THEN "TypeError" ELSE "query failed"))
          /\ UNCHANGED <<materials, nextId>>
       \/ /\ req[r].user # NullUser
          /\ nextId <= MaxMaterials
          /\ LET material == [id |-> nextId, userId |-> req[r].user.id,
                              title |-> req[r].body.title,
                              fileUrl |-> JsNull, fileType |-> JsNull]
             IN  /\ materials' = materials \cup {material}
                 /\ nextId' = nextId + 1
                 /\ Set(r, Respond([req[r] EXCEPT !.material = material], 201, "material"))
    /\ UNCHANGED <<storage, maxFileUpload, userVars>>

\* the same steps with the role checked ahead of the row's existence
FindAndAuthorizeRoleFirst(rq, verb) ==
    LET material == FindByPk(materials, NullMaterial, StringToNumber(rq.id))
        found == [rq EXCEPT !.material = material]
    IN  IF rq.user = NullUser
        THEN AsyncHandlerCatch(found, "TypeError")
        ELSE IF NotOwnerNorAdmin(material, rq.user)
        THEN NextError(found, 401,
                 "User " \o NumberToString(rq.user.id) \o " is not authorized to "
                     \o verb \o " this material", "")
        ELSE IF material = NullMaterial
        THEN NextError(found, 404, "Material not found with id of ", rq.id)
        ELSE [found EXCEPT !.pc = "checked"]

\* what updateMaterial, deleteMaterial and materialFileUpload do between the
\* row lookup and the ownership check included: the request as it stands
\* after them, pc = "checked" when both pass
FindAndAuthorize(rq, verb) ==
    LET material == FindByPk(materials, NullMaterial, StringToNumber(rq.id))
        found == [rq EXCEPT !.material = material]
    IN  IF material = NullMaterial
        THEN NextError(found, 404, "Material not found with id of ", rq.id)
        ELSE IF rq.user = NullUser
        THEN AsyncHandlerCatch(found, "TypeError")
        ELSE IF NotOwnerNorAdmin(material, rq.user)
        THEN NextError(found, 401,
                 "User " \o NumberToString(rq.user.id) \o " is not authorized to "
                     \o verb \o " this material", "")
        ELSE [found EXCEPT !.pc = "checked"]

\* PUT /:id, to the point where the UPDATE is issued
updateMaterialFind(r) ==
    /\ req[r].pc = "start" /\ req[r].op = "updateMaterial"
    /\ \/ Set(r, AsyncHandlerCatch(req[r], "query failed"))
       \/ LET rq == FindAndAuthorize(req[r], "update")
          IN  Set(r, IF rq.pc = "checked" THEN [rq EXCEPT !.pc = "write"] ELSE rq)
    /\ UNCHANGED <<materials, nextId, storage, maxFileUpload, userVars>>

\* PUT /:id, the UPDATE and the response
updateMaterialWrite(r) ==
    /\ req[r].pc = "write" /\ req[r].op = "updateMaterial"
    /\ \/ /\ Set(r, AsyncHandlerCatch(req[r], "query failed"))
          /\ UNCHANGED materials
       \/ /\ materials' = UpdateRow(materials, req[r].material.id, req[r].body)
          /\ Set(r, Respond(req[r], 200, "material"))
    /\ UNCHANGED <<nextId, storage, maxFileUpload, userVars>>

\* DELETE /:id, to the point where the DELETE is issued
deleteMaterialFind(r) ==
    /\ req[r].pc = "start" /\ req[r].op = "deleteMaterial"
    /\ \/ Set(r, AsyncHandlerCatch(req[r], "query failed"))
       \/ LET rq == FindAndAuthorize(req[r], "delete")
          IN  Set(r, IF rq.pc = "checked" THEN [rq EXCEPT !.pc = "write"] ELSE rq)
    /\ UNCHANGED <<materials, nextId, storage, maxFileUpload, userVars>>

\* DELETE /:id, the DELETE and the response
deleteMaterialWrite(r) ==
    /\ req[r].pc = "write" /\ req[r].op = "deleteMaterial"
    /\ \/ /\ Set(r, AsyncHandlerCatch(req[r], "query failed"))
          /\ UNCHANGED materials
       \/ /\ materials' = DestroyRow(materials, req[r].material.id)
          /\ Set(r, Respond(req[r], 200, ""))
    /\ UNCHANGED <<nextId, storage, maxFileUpload, userVars>>

\* the checks of materialFileUpload on req.files, after the ownership check:
\* the request as it stands after them, pc = "mv" when the file is accepted
CheckFile(rq) ==
    LET file == rq.files
    IN  IF rq.files = NoFiles
        THEN NextError(rq, 400, "Please upload a file", "")
        ELSE IF file.field # "file"
        THEN AsyncHandlerCatch(rq, "TypeError")
        ELSE IF ~StartsWith(file.mimetype, "application")
        THEN NextError(rq, 400, "Please upload a valid file", "")
        ELSE IF file.size > ToNumber(MaxSize)
        THEN NextError(rq, 400, "Please upload a file less than ",
                       NumberToString(ToNumber(MaxSize) \div 1000000) \o "MB")
        ELSE [rq EXCEPT !.pc = "mv",
                        !.fileName = CustomFileName(rq.material, file)]

\* PUT /:id/file, to the point where file.mv is called
materialFileUploadFind(r) ==
    /\ req[r].pc = "start" /\ req[r].op = "materialFileUpload"
    /\ \/ Set(r, AsyncHandlerCatch(req[r], "query failed"))
       \/ LET rq == FindAndAuthorize(req[r], "update")
          IN  Set(r, IF rq.pc = "checked" THEN CheckFile(rq) ELSE rq)
    /\ UNCHANGED <<materials, nextId, storage, maxFileUpload, userVars>>

\* file.mv completes and its callback is entered
materialFileUploadMv(r) ==
    /\ req[r].pc = "mv"
    /\ \/ /\ Set(r, NextError(req[r], 500, "Problem with file upload", ""))
          /\ UNCHANGED storage
       \/ /\ storage' = storage \cup {req[r].fileName}
          /\ Set(r, [req[r] EXCEPT !.pc = "callbackWrite"])
    /\ UNCHANGED <<materials, nextId, maxFileUpload, userVars>>

\* the callback's await material.update({fileUrl, fileType}): a rejection
\* here is a rejection of the callback's own promise, which nothing awaits
materialFileUploadWrite(r) ==
    /\ req[r].pc = "callbackWrite"
    /\ \/ /\ Set(r, [req[r] EXCEPT !.pc = "done"])
          /\ UNCHANGED materials
       \/ /\ materials' = UpdateRow(materials, req[r].material.id,
                                    FileFields(req[r].fileName))
          /\ Set(r, [req[r] EXCEPT !.pc = "callbackRespond"])
    /\ UNCHANGED <<nextId, storage, maxFileUpload, userVars>>

\* the callback's res.status(200).json({success: true, data: file.name})
materialFileUploadRespond(r) ==
    /\ req[r].pc = "callbackRespond"
    /\ Set(r, Respond(req[r], 200, req[r].fileName))
    /\ UNCHANGED <<materials, nextId, storage, maxFileUpload, userVars>>

----------------------------------------------------------------------------
(* The auth middleware and the materials router *)

Tokens ==
    {NoToken, [present |-> TRUE, verifies |-> FALSE, id |-> 1]}
        \cup {[present |-> TRUE, verifies |-> TRUE, id |-> i] : i \in 1..4}

\* protect: the request with req.user loaded from a verified token, or
\* ended with Unauthorized
Protect(rq) ==
    IF ~rq.token.present \/ ~rq.token.verifies
    THEN NextError(rq, 401, "Not authorized to access this route", "")
    ELSE LET user == FindByPk(users, NullUser, rq.token.id)
         IN  IF user = NullUser
             THEN NextError(rq, 401, "Not authorized to access this route", "")
             ELSE [rq EXCEPT !.user = user]

\* authorize(...roles): ended with Forbidden unless req.user.role is allowed
Authorize(rq, roles) ==
    IF rq.user.role \notin roles
    THEN NextError(rq, 403, "User role is not authorized to access this route",
                   rq.user.role)
    ELSE rq

\* the router's stack with a route registered ahead of router.use(protect)
RouterStackPutUnprotected ==
    << [kind |-> "route", method |-> "GET", path |-> "/", handler |-> "getMaterials"],
       [kind |-> "route", method |-> "GET", path |-> "/:id", handler |-> "getMaterial"],
       [kind |-> "route", method |-> "PUT", path |-> "/:id", handler |-> "updateMaterial"],
       [kind |-> "use", method |-> "", path |-> "", handler |-> "protect"],
       [kind |-> "use", method |-> "", path |-> "", handler |-> "authorize"],
       [kind |-> "route", method |-> "POST", path |-> "/", handler |-> "createMaterial"],
       [kind |-> "route", method |-> "DELETE", path |-> "/:id", handler |-> "deleteMaterial"] >>

\* the router's stack, in registration order
RouterStack ==
    << [kind |-> "route", method |-> "GET", path |-> "/", handler |-> "getMaterials"],
       [kind |-> "route", method |-> "GET", path |-> "/:id", handler |-> "getMaterial"],
       [kind |-> "use", method |-> "", path |-> "", handler |-> "protect"],
       [kind |-> "use", method |-> "", path |-> "", handler |-> "authorize"],
       [kind |-> "route", method |-> "POST", path |-> "/", handler |-> "createMaterial"],
       [kind |-> "route", method |-> "PUT", path |-> "/:id", handler |-> "updateMaterial"],
       [kind |-> "route", method |-> "DELETE", path |-> "/:id", handler |-> "deleteMaterial"] >>

\* authorize('publisher', 'admin')
AuthorizedRoles == {"publisher", "admin"}

RECURSIVE Dispatch(_, _)
\* the request after the stack's layers from the i-th on: each middleware
\* either ends it or passes it on, the first matching route's handler is
\* entered
Dispatch(rq, i) ==
    IF i > Len(RouterStack) THEN [rq EXCEPT !.pc = "unmatched"]
    ELSE LET layer == RouterStack[i]
         IN  IF layer.kind = "route"
             THEN IF layer.method = rq.method /\ layer.path = rq.path
                  THEN [rq EXCEPT !.pc = "start", !.op = layer.handler]
                  ELSE Dispatch(rq, i + 1)
             ELSE LET after == IF layer.handler = "protect" THEN Protect(rq)
                               ELSE Authorize(rq, AuthorizedRoles)
                  IN  IF after.pc = "done" THEN after ELSE Dispatch(after, i + 1)

----------------------------------------------------------------------------
(* Requests *)

\* req.params.id: the ids of rows that can exist, and one that names none
RequestIds == {NumberToString(i) : i \in 1..MaxMaterials} \cup {"999999"}

\* req.files: nothing, a file under another form field, a wrong MIME type,
\* one byte over the limit, exactly the limit
UploadFiles ==
    { NoFiles,
      [field |-> "doc", name |-> "a.pdf", mimetype |-> "application/pdf", size |-> 1],
      [field |-> "file", name |-> "a.png", mimetype |-> "image/png", size |-> 1],
      [field |-> "file", name |-> "a.pdf", mimetype |-> "application/pdf",
       size |-> ToNumber(MaxSize) + 1],
      [field |-> "file", name |-> "a.pdf", mimetype |-> "application/pdf",
       size |-> ToNumber(MaxSize)] }

Free(r) == req[r].pc = "idle"

\* the exchange is over (answered, or given up by the client): the slot can
\* take the next request
EndRequest(r) ==
    /\ req[r].pc = "done"
    /\ Set(r, IdleRequest)
    /\ UNCHANGED <<materials, nextId, storage, maxFileUpload, userVars>>

\* a request arrives at the materials router
RouterRequest(r, method, path, token, id, body) ==
    /\ Free(r)
    /\ Set(r, Dispatch([IdleRequest EXCEPT !.via = "router", !.method = method,
                                           !.path = path, !.token = token,
                                           !.id = id, !.body = body], 1))
    /\ UNCHANGED <<materials, nextId, storage, maxFileUpload, userVars>>

\* a handler is entered for an authenticated user (req.user set by the auth
\* middleware of whichever mount guards it)
HandlerRequest(r, op, user, id, body, files) ==
    /\ Free(r)
    /\ Set(r, [IdleRequest EXCEPT !.pc = "start", !.via = "handler", !.op = op,
                                  !.user = user, !.id = id, !.body = body,
                                  !.files = files])
    /\ UNCHANGED <<materials, nextId, storage, maxFileUpload, userVars>>

RouterRequests(r) ==
    \/ \E token \in Tokens : RouterRequest(r, "GET", "/", token, "", NoBody)
    \/ \E token \in Tokens, id \in RequestIds :
           RouterRequest(r, "GET", "/:id", token, id, NoBody)
    \/ \E token \in Tokens, body \in CreateBodies :
           RouterRequest(r, "POST", "/", token, "", body)
    \/ \E token \in Tokens, id \in RequestIds, body \in UpdateBodies :
           RouterRequest(r, "PUT", "/:id", token, id, body)
    \/ \E token \in Tokens, id \in RequestIds :
           RouterRequest(r, "DELETE", "/:id", token, id, NoBody)

HandlerRequests(r, requesters, updateBodies, uploadFiles) ==
    \/ \E user \in requesters, body \in CreateBodies :
           HandlerRequest(r, "createMaterial", user, "", body, NoFiles)
    \/ \E user \in requesters, id \in RequestIds, body \in updateBodies :
           HandlerRequest(r, "updateMaterial", user, id, body, NoFiles)
    \/ \E user \in requesters, id \in RequestIds :
           HandlerRequest(r, "deleteMaterial", user, id, NoBody, NoFiles)
    \/ \E user \in requesters, id \in RequestIds, files \in uploadFiles :
           HandlerRequest(r, "materialFileUpload", user, id, NoBody, files)

ReadSteps(r) ==
    \/ getMaterials(r)
    \/ getMaterial(r)

WriteSteps(r) ==
    \/ createMaterial(r)
    \/ updateMaterialFind(r)
    \/ updateMaterialWrite(r)
    \/ deleteMaterialFind(r)
    \/ deleteMaterialWrite(r)
    \/ materialFileUploadFind(r)
    \/ materialFileUploadMv(r)
    \/ materialFileUploadWrite(r)
    \/ materialFileUploadRespond(r)
    \/ EndRequest(r)

NoUserOp == [op |-> "", id |-> 0, email |-> JsUndefined, password |-> JsUndefined,
             result |-> ""]

Init ==
    /\ materials = {}
    /\ nextId = 1
    /\ storage = {}
    /\ req = [r \in Slots |-> IdleRequest]
    /\ maxFileUpload \in MaxFileUploadSettings
    /\ users = SeedUsers
    /\ nextUserId = 4
    /\ lastUserOp = NoUserOp
    /\ collation = "case-sensitive"

\* one request at a time
Next ==
    \/ RouterRequests("r1")
    \/ HandlerRequests("r1", users, UpdateBodies, UploadFiles)
    \/ ReadSteps("r1")
    \/ WriteSteps("r1")

Spec == Init /\ [][Next]_vars

\* two requests in flight: creates, title updates, deletes and uploads (of
\* no file, or of one at the size limit) by the admin and the teacher
NextConcurrent ==
    \E r \in Slots :
        \/ HandlerRequests(r, {u \in users : u.role # "student"},
                           {b \in UpdateBodies : b.fileUrl = JsUndefined},
                           {f \in UploadFiles :
                               f = NoFiles \/ (f.field = "file" /\ f.size = ToNumber(MaxSize))})
        \/ WriteSteps(r)

SpecConcurrent == Init /\ [][NextConcurrent]_vars

----------------------------------------------------------------------------
(* The User model *)

UpperCaseLetters == "ABCDEFGHIJKLMNOPQRSTUVWXYZ"
LowerCaseLetters == "abcdefghijklmnopqrstuvwxyz"

LowerChar(c) ==
    IF \E i \in 1..26 : SubSeq(UpperCaseLetters, i, i) = c
    THEN LET i == CHOOSE j \in 1..26 : SubSeq(UpperCaseLetters, j, j) = c
         IN  SubSeq(LowerCaseLetters, i, i)
    ELSE c

RECURSIVE ToLowerCase(_)
\* String.prototype.toLowerCase
ToLowerCase(s) ==
    IF Len(s) = 0 THEN ""
    ELSE LowerChar(SubSeq(s, 1, 1)) \o ToLowerCase(SubSeq(s, 2, Len(s)))

\* the password attribute's set(value): the column receives the bcrypt hash
PasswordSetter(value) == BcryptHash(value)

\* the length of a bcrypt hash string
BcryptHashLength == 60

\* the string the validators of the password attribute see
PasswordDataValueLength(password) == BcryptHashLength

\* len: { args: [6, 255] }
PasswordMinLen == 6

\* validate of password: notEmpty, len [6, 255], on the attribute's data value
ValidPassword(password) ==
    /\ PasswordDataValueLength(password) # 0
    /\ PasswordDataValueLength(password) >= PasswordMinLen
    /\ PasswordDataValueLength(password) <= 255

\* the positions of "@" in s
AtPositions(s) == {i \in 1..Len(s) : SubSeq(s, i, i) = "@"}

\* validate of email: isEmail (one "@" with a local part before it and a
\* dotted domain after it), notEmpty, len [6, 100]
ValidEmail(email) ==
    /\ Cardinality(AtPositions(email)) = 1
    /\ \A i \in AtPositions(email) :
           /\ i > 1
           /\ \E d \in DotPositions(email) : d > i + 1 /\ d < Len(email)
    /\ email # ""
    /\ Len(email) >= 6
    /\ Len(email) <= 100

\* a beforeCreate hook that leaves the email as submitted
BeforeCreateAsSubmitted(user) == user

\* hooks.beforeCreate
BeforeCreate(user) ==
    IF user.email # "" THEN [user EXCEPT !.email = ToLowerCase(@)] ELSE user

\* hooks.beforeUpdate
BeforeUpdate(user, changedEmail) ==
    IF changedEmail /\ user.email # ""
    THEN [user EXCEPT !.email = ToLowerCase(@)]
    ELSE user

Collations == {"case-sensitive", "case-insensitive"}

\* the unique index on email refuses the row
UniqueViolation(table, user) ==
    \E row \in table :
        /\ row.id # user.id
        /\ IF collation = "case-insensitive"
           THEN ToLowerCase(row.email) = ToLowerCase(user.email)
           ELSE row.email = user.email

\* User.create({email, password}): the setters run as the instance is built
\* (role takes its default), then validation, then beforeCreate, then the
\* INSERT
UserCreate(email, password) ==
    /\ nextUserId <= MaxUsers
    /\ LET built == [id |-> nextUserId, email |-> email,
                     password |-> PasswordSetter(password), role |-> "student"]
           hooked == BeforeCreate(built)
           op == [op |-> "create", id |-> nextUserId, email |-> JsString(email),
                  password |-> JsString(password), result |-> ""]
       IN  IF ~(ValidEmail(built.email) /\ ValidPassword(built.password))
           THEN /\ lastUserOp' = [op EXCEPT !.result = "ValidationError"]
                /\ UNCHANGED <<users, nextUserId>>
           ELSE IF UniqueViolation(users, hooked)
           THEN /\ lastUserOp' = [op EXCEPT !.result = "UniqueConstraintError"]
                /\ UNCHANGED <<users, nextUserId>>
           ELSE /\ users' = users \cup {hooked}
                /\ nextUserId' = nextUserId + 1
                /\ lastUserOp' = [op EXCEPT !.result = "ok"]
    /\ UNCHANGED <<materialVars, collation>>

\* user.update({email, password}) on a stored row: the setters run, then
\* validation, then beforeUpdate, then the UPDATE; undefined leaves a column
UserUpdate(id, email, password) ==
    /\ \E row \in users : row.id = id
    /\ LET user == FindByPk(users, NullUser, id)
           set == [user EXCEPT
                      !.email = IF email.type = "undefined" THEN @ ELSE email.str,
                      !.password = IF password.type = "undefined" THEN @
                                   ELSE PasswordSetter(password.str)]
           hooked == BeforeUpdate(set, set.email # user.email)
           op == [op |-> "update", id |-> id, email |-> email,
                  password |-> password, result |-> ""]
       IN  IF ~(ValidEmail(set.email) /\ ValidPassword(set.password))
           THEN /\ lastUserOp' = [op EXCEPT !.result = "ValidationError"]
                /\ UNCHANGED users
           ELSE IF UniqueViolation(users, hooked)
           THEN /\ lastUserOp' = [op EXCEPT !.result = "UniqueConstraintError"]
                /\ UNCHANGED users
           ELSE /\ users' = (users \ {user}) \cup {hooked}
                /\ lastUserOp' = [op EXCEPT !.result = "ok"]
    /\ UNCHANGED <<materialVars, nextUserId, collation>>

Emails == {"a@x.io", "A@x.io", "b@X.io", "nobody"}

RECURSIVE Plaintext(_)
\* a plaintext password of n characters
Plaintext(n) == IF n = 0 THEN "" ELSE "p" \o Plaintext(n - 1)

\* the empty password, and the lengths on either side of the minimum
Passwords == {Plaintext(n) : n \in {0, PasswordMinLen - 1, PasswordMinLen}}

InitUser ==
    /\ materials = {}
    /\ nextId = 1
    /\ storage = {}
    /\ req = [r \in Slots |-> IdleRequest]
    /\ maxFileUpload = JsUndefined
    /\ users = {}
    /\ nextUserId = 1
    /\ lastUserOp = NoUserOp
    /\ collation \in Collations

NextUser ==
    \/ \E email \in Emails, password \in Passwords :
           UserCreate(email, password)
    \/ \E id \in 1..MaxUsers, email \in {JsString(e) : e \in Emails} \cup {JsUndefined},
          password \in {JsString(p) : p \in Passwords} \cup {JsUndefined} :
           UserUpdate(id, email, password)

SpecUser == InitUser /\ [][NextUser]_vars

----------------------------------------------------------------------------
(* Properties *)

\* the single outcome of a request whose handler has run to its end
Outcome(rq) == rq.outcomes[1]

Answered(rq) == rq.pc = "done" /\ Len(rq.outcomes) = 1

QueryFailed(rq) == Answered(rq) /\ Outcome(rq).text = "query failed"

IsOwner(user, material) == user.id = material.userId

\* C1: for an existing material, Update and Delete by an authenticated
\* requester who is neither its owner nor an admin end with a Forbidden error
\* and the row as it was; Update and Delete by an admin succeed whoever the
\* owner is (a failed query aside).
C1_NonOwnerForbiddenAdminSucceeds ==
    \A r \in Slots :
        LET rq == req[r]
        IN  ( /\ rq.pc = "done"
              /\ rq.op \in {"updateMaterial", "deleteMaterial"}
              /\ rq.material # NullMaterial
              /\ rq.user # NullUser )
            => /\ (~IsOwner(rq.user, rq.material) /\ rq.user.role # "admin")
                  => /\ Answered(rq)
                     /\ Outcome(rq).via = "next"
                     /\ ErrorKind(Outcome(rq).status) = "Forbidden"
                     /\ rq.material \in materials
               /\ rq.user.role = "admin"
                  => /\ Answered(rq)
                     /\ Outcome(rq).status = 200 \/ QueryFailed(rq)

\* C2: for an existing material, a requester whose id equals the material's
\* userId is not turned away by the ownership check of Update, Delete and
\* File upload, admin or not, and the owner's update or delete is applied
\* (a failed query aside).
C2_OwnerPassesOwnershipCheck ==
    \A r \in Slots :
        LET rq == req[r]
        IN  ( /\ rq.pc = "done"
              /\ rq.op \in {"updateMaterial", "deleteMaterial", "materialFileUpload"}
              /\ rq.material # NullMaterial
              /\ rq.user # NullUser
              /\ IsOwner(rq.user, rq.material) )
            => /\ Answered(rq) => ErrorKind(Outcome(rq).status) \notin {"Unauthorized", "Forbidden"}
               /\ rq.op \in {"updateMaterial", "deleteMaterial"}
                  => Answered(rq) /\ (Outcome(rq).status = 200 \/ QueryFailed(rq))

\* the user a token stands for: null for a missing or unverifiable token and
\* for one whose user is not in the users table
TokenUser(token) ==
    IF token.present /\ token.verifies THEN FindByPk(users, NullUser, token.id)
    ELSE NullUser

\* POST /, PUT /:id or DELETE /:id at the materials router
WriteRoute(rq) ==
    /\ rq.via = "router"
    /\ <<rq.method, rq.path>> \in {<<"POST", "/">>, <<"PUT", "/:id">>, <<"DELETE", "/:id">>}

RejectedAs(rq, kind) ==
    /\ Answered(rq)
    /\ rq.op = ""
    /\ rq.material = NullMaterial
    /\ Outcome(rq).via = "next"
    /\ ErrorKind(Outcome(rq).status) = kind

C3_Gate ==
    \A r \in Slots :
        LET rq == req[r]
        IN  WriteRoute(rq)
            => /\ TokenUser(rq.token) = NullUser => RejectedAs(rq, "Unauthorized")
               /\ TokenUser(rq.token).role = "student" => RejectedAs(rq, "Forbidden")
               /\ rq.op # ""
                  => /\ rq.user = TokenUser(rq.token)
                     /\ rq.user # NullUser
                     /\ rq.user.role \in AuthorizedRoles

C3_NoWrite ==
    (materials' # materials \/ nextId' # nextId \/ storage' # storage)
    => \E r \in Slots :
           /\ req'[r] # req[r]
           /\ req[r].op # ""
           /\ WriteRoute(req[r])
              => /\ TokenUser(req[r].token) # NullUser
                 /\ TokenUser(req[r].token).role # "student"

\* C3: a POST /, PUT /:id or DELETE /:id request goes through the
\* authentication check, then the role check, before a handler is entered:
\* without a valid token it ends as Unauthorized, with a student's token as
\* Forbidden, no handler is entered for it, and no step that changes the
\* materials table or the stored files belongs to such a request.
C3_AuthBeforeHandlers == []C3_Gate /\ [][C3_NoWrite]_vars

\* a student's PUT /:id on an existing material has been turned away
C3_Witness ==
    \E r \in Slots :
        /\ WriteRoute(req[r])
        /\ req[r].method = "PUT"
        /\ TokenUser(req[r].token).role = "student"
        /\ RejectedAs(req[r], "Forbidden")
        /\ \E row \in materials : NumberToString(row.id) = req[r].id

FindOps == {"getMaterial", "updateMaterial", "deleteMaterial", "materialFileUpload"}

NotFoundOutcome(id) ==
    [via |-> "next", status |-> 404, text |-> "Material not found with id of ",
     arg |-> id]

C4_Step ==
    \A r \in Slots :
        ( /\ req[r].pc = "start"
          /\ req[r].op \in FindOps
          /\ req'[r] # req[r]
          /\ FindByPk(materials, NullMaterial, StringToNumber(req[r].id)) = NullMaterial )
        => /\ Answered(req'[r])
           /\ Outcome(req'[r]) = NotFoundOutcome(req[r].id) \/ QueryFailed(req'[r])
           /\ ErrorKind(NotFoundOutcome(req[r].id).status) = "NotFound"
           /\ UNCHANGED <<materials, nextId, storage>>

\* C4: when the id of a Get, Update, Delete or File upload names no stored
\* material, the handler's step ends the request with NotFound and a message
\* carrying that id, whoever the requester is, and leaves the materials table
\* and the stored files unchanged (a failed lookup query is reported as an
\* Internal error instead).
C4_NotFoundBeforeOwnership == [][C4_Step]_vars

\* a student's Delete of id 999999 has ended NotFound with rows in the table
C4_Witness ==
    \E r \in Slots :
        /\ req[r].op = "deleteMaterial"
        /\ req[r].user.role = "student"
        /\ req[r].id = "999999"
        /\ Answered(req[r])
        /\ Outcome(req[r]) = NotFoundOutcome("999999")
        /\ materials # {}

\* the size limit in force: the configured one, 10,000,000 bytes by default
ConfiguredMaximum ==
    IF maxFileUpload = JsUndefined THEN 10000000 ELSE StringToNumber(maxFileUpload.str)

FileViolation(files) ==
    \/ files = NoFiles
    \/ ~StartsWith(files.mimetype, "application")
    \/ files.size > ConfiguredMaximum

C5_Step ==
    \A r \in Slots :
        LET material == FindByPk(materials, NullMaterial, StringToNumber(req[r].id))
        IN  ( /\ req[r].pc = "start"
              /\ req[r].op = "materialFileUpload"
              /\ req'[r] # req[r]
              /\ material # NullMaterial
              /\ IsOwner(req[r].user, material) \/ req[r].user.role = "admin" )
            => /\ req'[r].pc = "mv" => ~FileViolation(req[r].files)
               /\ FileViolation(req[r].files)
                  => /\ Answered(req'[r])
                     /\ \/ ErrorKind(Outcome(req'[r]).status) = "BadRequest"
                        \/ QueryFailed(req'[r])
                     /\ UNCHANGED <<materials, storage>>

\* C5: a File upload by the owner or an admin on an existing material is
\* accepted only with a file attached whose MIME type starts with
\* "application" and whose size is at most the configured maximum; every
\* violation ends as BadRequest with no file stored and the row unchanged.
C5_UploadValidation == [][C5_Step]_vars

----------------------------------------------------------------------------

C6_Stored ==
    /\ \A u \in users : u.email = ToLowerCase(u.email)
    /\ \A u, v \in users : u # v => ToLowerCase(u.email) # ToLowerCase(v.email)

C6_Create ==
    ( /\ lastUserOp' # lastUserOp \/ users' # users
      /\ lastUserOp'.op = "create"
      /\ \E u \in users : ToLowerCase(u.email) = ToLowerCase(lastUserOp'.email.str) )
    => /\ users' = users
       /\ lastUserOp'.result # "ok"
       /\ ( ValidEmail(lastUserOp'.email.str)
            /\ Len(lastUserOp'.password.str) >= PasswordMinLen )
          => lastUserOp'.result = "UniqueConstraintError"

\* C6: after any sequence of User creates and updates every stored email is
\* lowercase and no two stored emails are equal ignoring case; a create whose
\* email equals a stored one ignoring case adds no user, and fails on the
\* unique index when the submitted record is otherwise valid.
C6_EmailLowercaseUnique == []C6_Stored /\ [][C6_Create]_vars

\* "A@x.io" has been refused by the unique index with "a@x.io" stored
C6_Witness ==
    /\ lastUserOp.op = "create"
    /\ lastUserOp.email = JsString("A@x.io")
    /\ lastUserOp.result = "UniqueConstraintError"
    /\ \E u \in users : u.email = "a@x.io"

\* C7: a User create or update whose submitted password has fewer than 6
\* characters fails validation, and no stored password is the hash of one.
C7_ShortPasswordRejected ==
    /\ ( /\ lastUserOp.op \in {"create", "update"}
         /\ lastUserOp.password.type = "string"
         /\ Len(lastUserOp.password.str) < PasswordMinLen )
       => lastUserOp.result = "ValidationError"
    /\ \A u \in users : Len(u.password.hashOf) >= PasswordMinLen

----------------------------------------------------------------------------

HasFile(row) == ~Falsy(row.fileUrl) /\ ~Falsy(row.fileType)

C8_Step ==
    \A row \in materials :
        HasFile(row) => \A after \in materials' : after.id = row.id => HasFile(after)

\* C8: once a material has a file attached, it has one in every later state
\* in which it still exists.
C8_FileNeverDetached == [][C8_Step]_vars

\* C9: when a request's handler has run to its end, the request has received
\* exactly one outcome: one response, or one error handed to the error
\* formatter.
C9_ExactlyOneOutcome ==
    \A r \in Slots : req[r].pc = "done" => Len(req[r].outcomes) = 1

C10_Step ==
    \A r \in Slots :
        (req[r].pc = "callbackRespond" /\ req'[r].pc = "done")
        => \E row \in materials' :
               /\ row.id = req[r].material.id
               /\ row.fileUrl = JsString(FILE_UPLOAD_PATH \o "/" \o req[r].fileName)

\* C10: whenever File upload answers with success, the material exists in
\* the table at that moment and its fileUrl names the file just stored.
C10_SuccessMeansStored == [][C10_Step]_vars

====
